---- MODULE Spec2Model ----
(***************************************************************************)
(* RFM customer segmentation (1.1-ecommerce-analytics/src/rfm.py).         *)
(*                                                                         *)
(* The module models the functions of the RFM pipeline as operators over   *)
(* tables (sequences of row records) and the calls of these functions as   *)
(* actions:                                                                *)
(*   SpecSegments  assign_segments applied to a scored table               *)
(*   SpecRfm       load_transactions / compute_rfm applied to a            *)
(*                 transaction table                                       *)
(*   SpecScore     score_rfm applied to a table of customer metrics        *)
(*   SpecRun       the command-line entry point and run(), the whole       *)
(*                 pipeline from the dataset to the written artefacts      *)
(*   SpecPipeline  the four functions called one after the other           *)
(*   SpecClassify  score_rfm and assign_segments applied to a population   *)
(*                 in which many customers share their metric values       *)
(*   SpecClean     clean_data (clean_data.py) applied to a raw dataset     *)
(*   SpecKpi       compute_kpis (kpi_analysis.py) applied to a dataset     *)
(* Timestamps are integers counting ticks, TicksPerDay ticks to the day,   *)
(* so that instants less than one day apart can be told apart.  Money is   *)
(* an integer number of currency units.                                    *)
(***************************************************************************)
EXTENDS Integers, Sequences, FiniteSets, TLC

VARIABLES
    pc,             \* position of the call sequence under analysis
    df,             \* the transaction table (one row per order line)
    snapshot_date,  \* the snapshot argument of compute_rfm (None or a tick)
    rfm,            \* the table returned by compute_rfm
    rfm_scored,     \* the table handed to assign_segments
    rfm_segmented,  \* the table returned by assign_segments
    calls,          \* number of assign_segments calls made on rfm_scored
    err,            \* the exception that ended the call sequence, "" if none
    bins,           \* the bins argument of score_rfm
    columns,        \* the columns of the dataset load_transactions reads
    cli_snapshot,   \* the --snapshot argument of the command line (None if omitted)
    outputs,        \* the artefacts run() has written, in order
    trace,          \* the functions run() has called, in order
    dataset,        \* the rows of the dataset at the input path
    kpis            \* the dictionary returned by compute_kpis

vars == <<pc, df, snapshot_date, rfm, rfm_scored, rfm_segmented, calls, err,
          bins, columns, cli_snapshot, outputs, trace, dataset, kpis>>

\* the variables of the command-line scripts
run_vars == <<columns, cli_snapshot, outputs, trace, dataset, kpis>>

(***************************************************************************)
(* Bounds of the model.                                                    *)
(***************************************************************************)
MaxRows == 2        \* rows of a scored table handed to assign_segments
MaxProfile == 2     \* metric profiles a scored row may carry
MaxCalls == 2       \* assign_segments calls made on one scored table
MaxTx == 2          \* rows of a transaction table
MaxTick == 2        \* latest order timestamp, in ticks
MaxSnapshot == 4    \* latest snapshot instant, in ticks
TicksPerDay == 2    \* resolution of a timestamp: ticks to the day
MaxPop == 3         \* customers of a population handed to score_rfm
MaxValue == 3       \* largest Recency and Frequency of such a customer
MaxRunTx == 3       \* rows of a dataset the command-line pipeline reads
MaxRaw == 3         \* rows of a raw dataset clean_data reads
MaxDup == 6         \* customers of a population with duplicate metric values
MaxKpiRows == 2     \* rows of a dataset compute_kpis summarises

(***************************************************************************)
(* Program constants.                                                      *)
(***************************************************************************)
DefaultBins == 5    \* score_rfm(rfm, bins=5): scores range over 1..5

NaN == 0            \* a missing CustomerID (1001.0, None in the fixtures)
None == 0 - 1       \* snapshot_date: Optional[pd.Timestamp] = None

Scores == 1..DefaultBins

\* required_cols of load_transactions
required_cols == {"InvoiceNo", "InvoiceDate", "CustomerID", "Quantity", "UnitPrice"}

Segments == {"VIP", "Loyal", "Growth Potential", "At Risk", "Dormant", "Mainstream"}

(***************************************************************************)
(* Generic helpers.                                                        *)
(***************************************************************************)
\* str(n) for a non-negative integer n (Series.astype(str))
Digit == <<"0", "1", "2", "3", "4", "5", "6", "7", "8", "9">>

RECURSIVE ToStr(_)
ToStr(n) == IF n < 10 THEN Digit[n + 1]
            ELSE ToStr(n \div 10) \o Digit[(n % 10) + 1]

\* the three texts joined with Frequency first
RFMString_FrequencyFirst(R, F, M) == ToStr(F) \o ToStr(R) \o ToStr(M)

\* RFM_Score = str(R_Score) + str(F_Score) + str(M_Score)
RFMString(R, F, M) == ToStr(R) \o ToStr(F) \o ToStr(M)

(***************************************************************************)
(* assign_segments: the rule engine.                                       *)
(***************************************************************************)
\* assign_segment with the VIP rule's monetary threshold lowered to 3
assign_segment_VipM3(row) ==
    LET R == row.R_Score
        F == row.F_Score
        M == row.M_Score
    IN  IF R >= 4 /\ F >= 4 /\ M >= 3 THEN "VIP"
        ELSE IF F >= 4 /\ M >= 3 /\ R >= 2 THEN "Loyal"
        ELSE IF R >= 4 /\ F <= 2 /\ M <= 2 THEN "Growth Potential"
        ELSE IF R <= 2 /\ F >= 3 /\ M >= 2 THEN "At Risk"
        ELSE IF R <= 1 THEN "Dormant"
        ELSE "Mainstream"

\* assign_segment with the At Risk rule tested before the Loyal rule
assign_segment_AtRiskBeforeLoyal(row) ==
    LET R == row.R_Score
        F == row.F_Score
        M == row.M_Score
    IN  IF R >= 4 /\ F >= 4 /\ M >= 4 THEN "VIP"
        ELSE IF R <= 2 /\ F >= 3 /\ M >= 2 THEN "At Risk"
        ELSE IF F >= 4 /\ M >= 3 /\ R >= 2 THEN "Loyal"
        ELSE IF R >= 4 /\ F <= 2 /\ M <= 2 THEN "Growth Potential"
        ELSE IF R <= 1 THEN "Dormant"
        ELSE "Mainstream"

\* assign_segment with the Dormant rule tested before the At Risk rule
assign_segment_DormantBeforeAtRisk(row) ==
    LET R == row.R_Score
        F == row.F_Score
        M == row.M_Score
    IN  IF R >= 4 /\ F >= 4 /\ M >= 4 THEN "VIP"
        ELSE IF F >= 4 /\ M >= 3 /\ R >= 2 THEN "Loyal"
        ELSE IF R >= 4 /\ F <= 2 /\ M <= 2 THEN "Growth Potential"
        ELSE IF R <= 1 THEN "Dormant"
        ELSE IF R <= 2 /\ F >= 3 /\ M >= 2 THEN "At Risk"
        ELSE "Mainstream"

\* assign_segment reading the Frequency metric where it should read F_Score
assign_segment_ReadsFrequency(row) ==
    LET R == row.R_Score
        F == row.Frequency
        M == row.M_Score
    IN  IF R >= 4 /\ F >= 4 /\ M >= 4 THEN "VIP"
        ELSE IF F >= 4 /\ M >= 3 /\ R >= 2 THEN "Loyal"
        ELSE IF R >= 4 /\ F <= 2 /\ M <= 2 THEN "Growth Potential"
        ELSE IF R <= 2 /\ F >= 3 /\ M >= 2 THEN "At Risk"
        ELSE IF R <= 1 THEN "Dormant"
        ELSE "Mainstream"

\* the inner function applied to each row: an if-chain, first match returns
assign_segment(row) ==
    LET R == row.R_Score
        F == row.F_Score
        M == row.M_Score
    IN  IF R >= 4 /\ F >= 4 /\ M >= 4 THEN "VIP"
        ELSE IF F >= 4 /\ M >= 3 /\ R >= 2 THEN "Loyal"
        ELSE IF R >= 4 /\ F <= 2 /\ M <= 2 THEN "Growth Potential"
        ELSE IF R <= 2 /\ F >= 3 /\ M >= 2 THEN "At Risk"
        ELSE IF R <= 1 THEN "Dormant"
        ELSE "Mainstream"

\* the label written over the RFM_Score column as well
WithSegment_OverwritesRFMScore(row, seg) ==
    [CustomerID |-> row.CustomerID, Recency |-> row.Recency,
     Frequency |-> row.Frequency, Monetary |-> row.Monetary,
     R_Score |-> row.R_Score, F_Score |-> row.F_Score, M_Score |-> row.M_Score,
     RFM_Score |-> seg, Segment |-> seg]

\* a row of the scored table extended by the Segment column
WithSegment(row, seg) ==
    [CustomerID |-> row.CustomerID, Recency |-> row.Recency,
     Frequency |-> row.Frequency, Monetary |-> row.Monetary,
     R_Score |-> row.R_Score, F_Score |-> row.F_Score, M_Score |-> row.M_Score,
     RFM_Score |-> row.RFM_Score, Segment |-> seg]

\* rfm = rfm_scored.copy(); rfm["Segment"] = rfm.apply(assign_segment, axis=1)
assign_segments(table) ==
    [i \in DOMAIN table |-> WithSegment(table[i], assign_segment(table[i]))]

(***************************************************************************)
(* Scored tables handed to assign_segments, built as the fixtures of       *)
(* tests/test_rfm.py build them.                                           *)
(***************************************************************************)
\* (Recency, Frequency, Monetary) of the rows of the sample_rfm fixture,
\* last row first
MetricProfiles ==
    << [Recency |-> 300, Frequency |-> 1,  Monetary |-> 200],
       [Recency |-> 200, Frequency |-> 3,  Monetary |-> 800],
       [Recency |-> 100, Frequency |-> 5,  Monetary |-> 1500],
       [Recency |-> 50,  Frequency |-> 8,  Monetary |-> 3000],
       [Recency |-> 5,   Frequency |-> 10, Monetary |-> 5000] >>

\* the score triples of the single-row fixtures of TestAssignSegments
FixtureTriples ==
    { <<5, 5, 5>>, <<3, 5, 4>>, <<5, 1, 1>>, <<1, 4, 3>>, <<1, 2, 2>>, <<3, 3, 3>> }

AllTriples == Scores \X Scores \X Scores

ScoredRow(i, p, t) ==
    [CustomerID |-> 1000 + i,
     Recency |-> MetricProfiles[p].Recency,
     Frequency |-> MetricProfiles[p].Frequency,
     Monetary |-> MetricProfiles[p].Monetary,
     R_Score |-> t[1], F_Score |-> t[2], M_Score |-> t[3],
     RFM_Score |-> RFMString(t[1], t[2], t[3])]

(***************************************************************************)
(* SpecSegments: assign_segments called on a scored table, and called      *)
(* again on the same table.                                                *)
(***************************************************************************)
InitSegments ==
    /\ pc = "scored"
    /\ df = <<>>
    /\ snapshot_date = None
    /\ rfm = <<>>
    \* the first row ranges over the whole score domain; every further row
    \* repeats the scores of the first row or carries a fixture triple
    /\ \E n \in 1..MaxRows :
       \E ps \in [1..n -> 1..MaxProfile] :
       \E ts \in [2..n -> FixtureTriples \cup {<<0, 0, 0>>}] :
       \E t1 \in AllTriples :
          rfm_scored = [i \in 1..n |-> ScoredRow(i, ps[i],
                            IF i = 1 \/ ts[i] = <<0, 0, 0>> THEN t1 ELSE ts[i])]
    /\ rfm_segmented = <<>>
    /\ calls = 0
    /\ err = ""
    /\ bins = DefaultBins
    /\ columns = required_cols
    /\ cli_snapshot = None
    /\ outputs = <<>>
    /\ trace = <<>>
    /\ dataset = <<>>
    /\ kpis = None

AssignSegments ==
    /\ pc \in {"scored", "segmented"}
    /\ calls < MaxCalls
    /\ rfm_segmented' = assign_segments(rfm_scored)
    /\ calls' = calls + 1
    /\ pc' = "segmented"
    /\ UNCHANGED <<df, snapshot_date, rfm, rfm_scored, err, bins, run_vars>>

NextSegments == AssignSegments

SpecSegments == InitSegments /\ [][NextSegments]_vars

(***************************************************************************)
(* Transaction tables.                                                     *)
(***************************************************************************)
\* the identifiers, quantities and prices the rows are drawn from
CustomerIDs == {1001, 1002}

InvoiceNos == {"INV001", "INV002"}

\* a negative quantity is a return
Quantities == {0 - 2, 2}

UnitPrices == {5}

\* df["Revenue"] = df["Quantity"] * df["UnitPrice"]
Revenue(row) == row.Quantity * row.UnitPrice

TxRow(inv, date, cust, qty, price) ==
    [InvoiceNo |-> inv, InvoiceDate |-> date, CustomerID |-> cust,
     Quantity |-> qty, UnitPrice |-> price,
     Revenue |-> Revenue([Quantity |-> qty, UnitPrice |-> price])]

TxRows ==
    { TxRow(inv, date, cust, qty, price) :
        inv \in InvoiceNos, date \in 0..MaxTick, cust \in CustomerIDs \cup {NaN},
        qty \in Quantities, price \in UnitPrices }

Snapshots == {None} \cup 0..MaxSnapshot

(***************************************************************************)
(* load_transactions: drop the guest rows, compute Revenue.                *)
(***************************************************************************)
\* df.dropna(subset=["CustomerID"]): the rows that carry a CustomerID, in order
RECURSIVE dropna(_)
dropna(t) ==
    IF t = <<>> THEN <<>>
    ELSE IF Head(t).CustomerID # NaN THEN <<Head(t)>> \o dropna(Tail(t))
         ELSE dropna(Tail(t))

\* load_transactions without the dropna on CustomerID
load_transactions_KeepsGuests(t) ==
    [i \in DOMAIN t |->
        [InvoiceNo |-> t[i].InvoiceNo, InvoiceDate |-> t[i].InvoiceDate,
         CustomerID |-> t[i].CustomerID, Quantity |-> t[i].Quantity,
         UnitPrice |-> t[i].UnitPrice, Revenue |-> Revenue(t[i])]]

load_transactions(t) ==
    LET kept == dropna(t)
    IN  [i \in DOMAIN kept |->
            [InvoiceNo |-> kept[i].InvoiceNo, InvoiceDate |-> kept[i].InvoiceDate,
             CustomerID |-> kept[i].CustomerID, Quantity |-> kept[i].Quantity,
             UnitPrice |-> kept[i].UnitPrice, Revenue |-> Revenue(kept[i])]]

(***************************************************************************)
(* compute_rfm.                                                            *)
(***************************************************************************)
Max(S) == CHOOSE x \in S : \A y \in S : y <= x

RECURSIVE SumOver(_, _)
SumOver(f, S) ==
    IF S = {} THEN 0
    ELSE LET x == CHOOSE y \in S : TRUE
         IN  f[x] + SumOver(f, S \ {x})

\* Timedelta.days computed by truncation toward zero
Days_TruncatesTowardZero(delta) ==
    IF delta >= 0 THEN delta \div TicksPerDay ELSE 0 - ((0 - delta) \div TicksPerDay)

\* Timedelta.days: whole days of a difference of ticks, rounded down
Days(delta) == delta \div TicksPerDay

\* the default snapshot without the added day
default_snapshot_NoExtraDay(t) == Max({t[i].InvoiceDate : i \in DOMAIN t})

\* the default snapshot taken from the earliest order
default_snapshot_FirstOrder(t) ==
    (CHOOSE x \in {t[i].InvoiceDate : i \in DOMAIN t} :
        \A i \in DOMAIN t : x <= t[i].InvoiceDate) + TicksPerDay

\* snapshot_date = df["InvoiceDate"].max() + pd.Timedelta(days=1)
default_snapshot(t) == Max({t[i].InvoiceDate : i \in DOMAIN t}) + TicksPerDay

\* groupby(dropna=False): the missing identifier forms a group of its own
GroupKeys_KeepsNaN(t) == {t[i].CustomerID : i \in DOMAIN t}

\* the keys of df.groupby("CustomerID"): missing identifiers form no group
GroupKeys(t) == {t[i].CustomerID : i \in DOMAIN t} \ {NaN}

Group(t, c) == {i \in DOMAIN t : t[i].CustomerID = c}

\* Frequency aggregated by "count" (rows) instead of "nunique"
Aggregate_CountsRows(t, c, snap) ==
    [CustomerID |-> c,
     Recency |-> Days(snap - Max({t[i].InvoiceDate : i \in Group(t, c)})),
     Frequency |-> Cardinality(Group(t, c)),
     Monetary |-> SumOver([i \in DOMAIN t |-> t[i].Revenue], Group(t, c))]

\* Recency measured from the earliest order (x.min()) instead of the latest
Aggregate_EarliestOrder(t, c, snap) ==
    [CustomerID |-> c,
     Recency |-> Days(snap - (0 - Max({0 - t[i].InvoiceDate : i \in Group(t, c)}))),
     Frequency |-> Cardinality({t[i].InvoiceNo : i \in Group(t, c)}),
     Monetary |-> SumOver([i \in DOMAIN t |-> t[i].Revenue], Group(t, c))]

\* Monetary aggregated by "max" instead of "sum"
Aggregate_MonetaryMax(t, c, snap) ==
    [CustomerID |-> c,
     Recency |-> Days(snap - Max({t[i].InvoiceDate : i \in Group(t, c)})),
     Frequency |-> Cardinality({t[i].InvoiceNo : i \in Group(t, c)}),
     Monetary |-> Max({t[i].Revenue : i \in Group(t, c)})]

\* the aggregate of one group
Aggregate(t, c, snap) ==
    [CustomerID |-> c,
     Recency |-> Days(snap - Max({t[i].InvoiceDate : i \in Group(t, c)})),
     Frequency |-> Cardinality({t[i].InvoiceNo : i \in Group(t, c)}),
     Monetary |-> SumOver([i \in DOMAIN t |-> t[i].Revenue], Group(t, c))]

\* the rows S ordered by Recency, rows of equal Recency by CustomerID
\* (groupby orders the groups by key, sort_values keeps that order in a
\* table this small)
RECURSIVE sort_values(_)
sort_values(S) ==
    IF S = {} THEN <<>>
    ELSE LET first == CHOOSE r \in S : \A q \in S :
                          \/ r.Recency < q.Recency
                          \/ r.Recency = q.Recency /\ r.CustomerID <= q.CustomerID
         IN  <<first>> \o sort_values(S \ {first})

Returned(table) == [error |-> "", table |-> table]
Raised(message) == [error |-> message, table |-> <<>>]

\* compute_rfm without the assertion on Monetary
compute_rfm_NoMonetaryCheck(t, snap) ==
    IF GroupKeys(t) = {}
    THEN {Returned(<<>>), Raised("empty aggregation")}
    ELSE LET snapshot == IF snap = None THEN default_snapshot(t) ELSE snap
             rows == {Aggregate(t, c, snapshot) : c \in GroupKeys(t)}
         IN  IF \E r \in rows : ~(r.Recency >= 0)
                 THEN {Raised("Found negative Recency")}
             ELSE IF \E r \in rows : ~(r.Frequency > 0)
                 THEN {Raised("Found Frequency <= 0")}
             ELSE {Returned(sort_values(rows))}

\* The outcomes of compute_rfm(t, snap).  With no group to aggregate the
\* pandas build decides whether the empty aggregation is returned or
\* rejected.
compute_rfm(t, snap) ==
    IF GroupKeys(t) = {}
    THEN {Returned(<<>>), Raised("empty aggregation")}
    ELSE LET snapshot == IF snap = None THEN default_snapshot(t) ELSE snap
             rows == {Aggregate(t, c, snapshot) : c \in GroupKeys(t)}
         IN  IF \E r \in rows : ~(r.Recency >= 0)
                 THEN {Raised("Found negative Recency")}
             ELSE IF \E r \in rows : ~(r.Frequency > 0)
                 THEN {Raised("Found Frequency <= 0")}
             ELSE IF \E r \in rows : ~(r.Monetary > 0)
                 THEN {Raised("Found Monetary <= 0")}
             ELSE {Returned(sort_values(rows))}

(***************************************************************************)
(* SpecRfm: compute_rfm called on a transaction table, directly or after   *)
(* load_transactions.                                                      *)
(***************************************************************************)
InitRfm ==
    /\ pc = "start"
    /\ \E n \in 0..MaxTx : df \in [1..n -> TxRows]
    /\ snapshot_date = None
    /\ rfm = <<>>
    /\ rfm_scored = <<>>
    /\ rfm_segmented = <<>>
    /\ calls = 0
    /\ err = ""
    /\ bins = DefaultBins
    /\ columns = required_cols
    /\ cli_snapshot = None
    /\ outputs = <<>>
    /\ trace = <<>>
    /\ dataset = <<>>
    /\ kpis = None

LoadTransactions ==
    /\ pc = "start"
    /\ df' = load_transactions(df)
    /\ pc' = "loaded"
    /\ UNCHANGED <<snapshot_date, rfm, rfm_scored, rfm_segmented, calls, err,
                   bins, run_vars>>

ComputeRfm ==
    /\ pc \in {"start", "loaded"}
    /\ \E snap \in Snapshots : \E outcome \in compute_rfm(df, snap) :
          /\ snapshot_date' = snap
          /\ rfm' = outcome.table
          /\ err' = outcome.error
          /\ pc' = IF outcome.error = "" THEN "computed" ELSE "failed"
    /\ UNCHANGED <<df, rfm_scored, rfm_segmented, calls, bins, run_vars>>

NextRfm == LoadTransactions \/ ComputeRfm

SpecRfm == InitRfm /\ [][NextRfm]_vars

(***************************************************************************)
(* pd.qcut(x, q=bins, labels=False, duplicates="drop") as score_rfm calls  *)
(* it.  The quantile edges are computed exactly: an edge is kept as the    *)
(* integer q * edge, and a value x is compared with it as q * x.           *)
(***************************************************************************)
NoBin == 0 - 1      \* the NaN qcut returns for a value it puts in no bin

Range(s) == {s[i] : i \in DOMAIN s}

\* the elements of the set S of integers in increasing order
RECURSIVE SortedSeqOfSet(_)
SortedSeqOfSet(S) ==
    IF S = {} THEN <<>>
    ELSE LET least == CHOOSE x \in S : \A y \in S : x <= y
         IN  <<least>> \o SortedSeqOfSet(S \ {least})

\* the values of the sequence x in nondecreasing order
RECURSIVE SortedValues(_)
SortedValues(x) ==
    IF x = <<>> THEN <<>>
    ELSE LET k == CHOOSE i \in DOMAIN x : \A j \in DOMAIN x : x[i] <= x[j]
         IN  <<x[k]>> \o SortedValues([i \in 1..(Len(x) - 1) |->
                                          IF i < k THEN x[i] ELSE x[i + 1]])

\* the quantile taken as the value below the position (interpolation="lower")
QuantileTimesQ_LowerInterpolation(s, q, k) == q * s[(((Len(s) - 1) * k) \div q) + 1]

\* q times the quantile k/q of the sorted values s, by linear interpolation
\* between the two values next to position (n - 1) * k / q
QuantileTimesQ(s, q, k) ==
    LET h == (Len(s) - 1) * k
        j == h \div q
        f == h % q
    IN  IF f = 0 THEN q * s[j + 1]
        ELSE q * s[j + 1] + f * (s[j + 2] - s[j + 1])

\* the q + 1 quantile edges (times q) of the values x
QuantileEdges(x, q) ==
    LET s == SortedValues(x)
    IN  [k \in 1..(q + 1) |-> QuantileTimesQ(s, q, k - 1)]

\* duplicate edges dropped also when there are just two edges
BinEdges_AlwaysDropsDuplicates(x, q) == SortedSeqOfSet(Range(QuantileEdges(x, q)))

\* _bins_to_cuts: duplicate edges are dropped unless there are just two edges
BinEdges(x, q) ==
    LET e == QuantileEdges(x, q)
    IN  IF Cardinality(Range(e)) < Len(e) /\ Len(e) # 2
        THEN SortedSeqOfSet(Range(e))
        ELSE e

\* the bin of value v: searchsorted(side="left") counts the edges below v,
\* a value on the lowest edge belongs to the first bin (include_lowest), and
\* a value at position 0 or len(bins) is in no bin
BinOf(v, edges, q) ==
    LET ids == IF q * v = edges[1] THEN 1
               ELSE Cardinality({k \in DOMAIN edges : edges[k] < q * v})
    IN  IF ids = Len(edges) \/ ids = 0 THEN NoBin ELSE ids - 1

\* the 0-based bin labels of the values x
qcut(x, q) ==
    LET edges == BinEdges(x, q)
    IN  [i \in DOMAIN x |-> BinOf(x[i], edges, q)]

(***************************************************************************)
(* score_rfm.                                                              *)
(***************************************************************************)
\* R_Score without the inversion
r_score_NotInverted(label, q) == label + 1

\* R_Score inverted as a 0-based index
r_score_ZeroBased(label, q) == q - 1 - label

\* rfm_scored["R_Score"] = bins - rfm_scored["R_Score"]
r_score(label, q) == q - label

\* F_Score left 0-based
f_score_ZeroBased(label) == label

\* rfm_scored["F_Score"] = rfm_scored["F_Score"] + 1
f_score(label) == label + 1

\* rfm_scored["M_Score"] = rfm_scored["M_Score"] + 1
m_score(label) == label + 1

\* the Monetary labels cut from the Recency column
qcut_labels_MonetaryFromRecency(t, q) ==
    [R |-> qcut([i \in DOMAIN t |-> t[i].Recency], q),
     F |-> qcut([i \in DOMAIN t |-> t[i].Frequency], q),
     M |-> qcut([i \in DOMAIN t |-> t[i].Recency], q)]

\* the three qcut calls of score_rfm
qcut_labels(t, q) ==
    [R |-> qcut([i \in DOMAIN t |-> t[i].Recency], q),
     F |-> qcut([i \in DOMAIN t |-> t[i].Frequency], q),
     M |-> qcut([i \in DOMAIN t |-> t[i].Monetary], q)]

IntCastingNaNError == "Cannot convert non-finite values (NA or inf) to integer"

\* The outcomes of score_rfm(t, q).  astype(int) raises on a column that holds
\* a NaN.  With no customer to score the pandas build decides whether the
\* empty table is returned or rejected.
score_rfm(t, q) ==
    IF t = <<>>
    THEN {Returned(<<>>), Raised("empty population")}
    ELSE LET labels == qcut_labels(t, q)
         IN  IF \E i \in DOMAIN t : labels.R[i] = NoBin
                 THEN {Raised(IntCastingNaNError)}
             ELSE IF \E i \in DOMAIN t : labels.F[i] = NoBin
                 THEN {Raised(IntCastingNaNError)}
             ELSE IF \E i \in DOMAIN t : labels.M[i] = NoBin
                 THEN {Raised(IntCastingNaNError)}
             ELSE {Returned([i \in DOMAIN t |->
                      [CustomerID |-> t[i].CustomerID, Recency |-> t[i].Recency,
                       Frequency |-> t[i].Frequency, Monetary |-> t[i].Monetary,
                       R_Score |-> r_score(labels.R[i], q),
                       F_Score |-> f_score(labels.F[i]),
                       M_Score |-> m_score(labels.M[i]),
                       RFM_Score |-> RFMString(r_score(labels.R[i], q),
                                               f_score(labels.F[i]),
                                               m_score(labels.M[i]))]])}

(***************************************************************************)
(* SpecScore: score_rfm called on a population of customers.               *)
(***************************************************************************)
\* the bin counts score_rfm is called with: 5 is the default, the tests
\* also pass 1
BinCounts == {1, 2, 3, DefaultBins}

\* customer i of a population; its Monetary is a hundred times its Frequency
MetricsRow(i, r, f) ==
    [CustomerID |-> 1000 + i, Recency |-> r, Frequency |-> f, Monetary |-> 100 * f]

InitScore ==
    /\ pc = "computed"
    /\ df = <<>>
    /\ snapshot_date = None
    \* populations in the order compute_rfm returns them: sorted by Recency
    /\ \E n \in 0..MaxPop :
       \E rs \in [1..n -> 1..MaxValue] :
       \E fs \in [1..n -> 1..MaxValue] :
          /\ \A i \in 1..(n - 1) : rs[i] <= rs[i + 1]
          /\ rfm = [i \in 1..n |-> MetricsRow(i, rs[i], fs[i])]
    /\ rfm_scored = <<>>
    /\ rfm_segmented = <<>>
    /\ calls = 0
    /\ err = ""
    /\ bins \in BinCounts
    /\ columns = required_cols
    /\ cli_snapshot = None
    /\ outputs = <<>>
    /\ trace = <<>>
    /\ dataset = <<>>
    /\ kpis = None

ScoreRfm ==
    /\ pc = "computed"
    /\ \E outcome \in score_rfm(rfm, bins) :
          /\ rfm_scored' = outcome.table
          /\ err' = outcome.error
          /\ pc' = IF outcome.error = "" THEN "scored" ELSE "failed"
    /\ UNCHANGED <<df, snapshot_date, rfm, rfm_segmented, calls, bins, run_vars>>

NextScore == ScoreRfm

SpecScore == InitScore /\ [][NextScore]_vars

(***************************************************************************)
(* SpecRun: python src/rfm.py --data ... [--snapshot D] [--output ...],    *)
(* that is run(args.data, args.output).                                    *)
(***************************************************************************)
\* the files run() writes, in the order it writes them
Artefacts ==
    <<"rfm_segmentation.parquet", "rfm_report.md", "rfm_segments.csv",
      "rfm_scatter_3d.png", "segment_distribution.png", "segment_revenue.png",
      "segment_heatmap.png", "segment_clv_boxplot.png",
      "marketing_action_matrix.png", "rfm_business_report.md">>

\* the rows of the datasets the pipeline is run on: orders on the first and
\* on the last day, without a Revenue column; returns are booked on the
\* second invoice
RunRows ==
    {[c \in required_cols |-> r[c]] :
        r \in {x \in TxRows : /\ x.InvoiceDate \in {0, MaxTick}
                              /\ x.Quantity < 0 => x.InvoiceNo = "INV002"}}

\* without the assertion pandas fails on the first missing column it reads
load_dataset_NoAssert(cols, t) ==
    IF required_cols \subseteq cols
    THEN Returned(load_transactions(t))
    ELSE Raised("KeyError")

\* load_transactions(path) on the dataset t with the columns cols: the
\* assertion on the required columns, then the rows
load_dataset(cols, t) ==
    IF required_cols \subseteq cols
    THEN Returned(load_transactions(t))
    ELSE Raised("Missing required columns")

\* the values of --snapshot: omitted, or two days after the last possible order
CliSnapshots == {None, MaxTick + 2 * TicksPerDay}

InitRun ==
    /\ pc = "run"
    /\ columns \in {required_cols} \cup {required_cols \ {c} : c \in required_cols}
    \* datasets that lack a column have at most one row
    /\ \E n \in 0..MaxRunTx :
          /\ columns # required_cols => n <= 1
          /\ \E t \in [1..n -> RunRows] :
                dataset = [i \in 1..n |-> [c \in columns |-> t[i][c]]]
    /\ df = <<>>
    /\ kpis = None
    /\ cli_snapshot \in CliSnapshots
    /\ snapshot_date = None
    /\ rfm = <<>>
    /\ rfm_scored = <<>>
    /\ rfm_segmented = <<>>
    /\ calls = 0
    /\ err = ""
    /\ bins = DefaultBins
    /\ outputs = <<>>
    /\ trace = <<>>

\* df = load_transactions(input_path)
RunLoad ==
    /\ pc = "run"
    /\ trace' = Append(trace, "load_transactions")
    /\ LET outcome == load_dataset(columns, dataset)
       IN  /\ df' = outcome.table
           /\ err' = outcome.error
           /\ pc' = IF outcome.error = "" THEN "run_loaded" ELSE "failed"
    /\ UNCHANGED <<snapshot_date, rfm, rfm_scored, rfm_segmented, calls, bins,
                   columns, cli_snapshot, outputs, dataset, kpis>>

\* rfm = compute_rfm(df)
RunCompute ==
    /\ pc = "run_loaded"
    /\ trace' = Append(trace, "compute_rfm")
    /\ \E outcome \in compute_rfm(df, None) :
          /\ rfm' = outcome.table
          /\ err' = outcome.error
          /\ pc' = IF outcome.error = "" THEN "run_computed" ELSE "failed"
    /\ UNCHANGED <<df, snapshot_date, rfm_scored, rfm_segmented, calls, bins,
                   columns, cli_snapshot, outputs, dataset, kpis>>

\* rfm_scored = score_rfm(rfm)
RunScore ==
    /\ pc = "run_computed"
    /\ trace' = Append(trace, "score_rfm")
    /\ \E outcome \in score_rfm(rfm, DefaultBins) :
          /\ rfm_scored' = outcome.table
          /\ err' = outcome.error
          /\ pc' = IF outcome.error = "" THEN "run_scored" ELSE "failed"
    /\ UNCHANGED <<df, snapshot_date, rfm, rfm_segmented, calls, bins,
                   columns, cli_snapshot, outputs, dataset, kpis>>

\* rfm_segmented = assign_segments(rfm_scored); with no row to label the
\* pandas build decides whether apply(axis=1) gives a column or fails
RunAssign ==
    /\ pc = "run_scored"
    /\ trace' = Append(trace, "assign_segments")
    /\ \E outcome \in IF rfm_scored = <<>>
                      THEN {Returned(<<>>), Raised("empty population")}
                      ELSE {Returned(assign_segments(rfm_scored))} :
          /\ rfm_segmented' = outcome.table
          /\ err' = outcome.error
          /\ pc' = IF outcome.error = "" THEN "run_segmented" ELSE "failed"
    /\ UNCHANGED <<df, snapshot_date, rfm, rfm_scored, calls, bins,
                   columns, cli_snapshot, outputs, dataset, kpis>>

\* a write placed ahead of the segmentation
WriteOutput_BeforeSegmentation ==
    /\ pc \in {"run_computed", "run_segmented"}
    /\ Len(outputs) < Len(Artefacts)
    /\ outputs' = Append(outputs, Artefacts[Len(outputs) + 1])
    /\ pc' = IF Len(outputs') = Len(Artefacts) THEN "done" ELSE pc
    /\ UNCHANGED <<df, snapshot_date, rfm, rfm_scored, rfm_segmented, calls,
                   err, bins, columns, cli_snapshot, trace, dataset, kpis>>

\* the next write of run(): to_parquet, save_segment_summary, the six plots,
\* generate_business_report
WriteOutput ==
    /\ pc = "run_segmented"
    /\ Len(outputs) < Len(Artefacts)
    /\ outputs' = Append(outputs, Artefacts[Len(outputs) + 1])
    /\ pc' = IF Len(outputs') = Len(Artefacts) THEN "done" ELSE pc
    /\ UNCHANGED <<df, snapshot_date, rfm, rfm_scored, rfm_segmented, calls,
                   err, bins, columns, cli_snapshot, trace, dataset, kpis>>

NextRun == RunLoad \/ RunCompute \/ RunScore \/ RunAssign \/ WriteOutput

SpecRun == InitRun /\ [][NextRun]_vars

(***************************************************************************)
(* SpecPipeline: the functions called one after the other on a transaction *)
(* table, as the tests call them: load_transactions, compute_rfm,          *)
(* score_rfm(rfm, bins), assign_segments.                                  *)
(***************************************************************************)
InitPipeline ==
    /\ pc = "start"
    /\ \E n \in 0..MaxTx : df \in [1..n -> TxRows]
    /\ snapshot_date = None
    /\ rfm = <<>>
    /\ rfm_scored = <<>>
    /\ rfm_segmented = <<>>
    /\ calls = 0
    /\ err = ""
    /\ bins \in {1, DefaultBins}
    /\ columns = required_cols
    /\ cli_snapshot = None
    /\ outputs = <<>>
    /\ trace = <<>>
    /\ dataset = <<>>
    /\ kpis = None

\* assign_segments on the table score_rfm returned for at least one customer
AssignScored ==
    /\ rfm_scored # <<>>
    /\ AssignSegments

NextPipeline == LoadTransactions \/ ComputeRfm \/ ScoreRfm \/ AssignScored

SpecPipeline == InitPipeline /\ [][NextPipeline]_vars

(***************************************************************************)
(* SpecClassify: score_rfm, then assign_segments, on populations like the  *)
(* one of test_score_handles_duplicates: blocks of customers that share    *)
(* their Recency, and blocks that share their Frequency and Monetary.      *)
(***************************************************************************)
\* customer i of a population of three Recency blocks (up to a, up to b, the
\* rest) and two Frequency blocks (up to c, the rest) with Frequency lo and hi
BlockRow(i, a, b, c, lo, hi) ==
    [CustomerID |-> i - 1,
     Recency |-> IF i <= a THEN 10 ELSE IF i <= b THEN 50 ELSE 90,
     Frequency |-> IF i <= c THEN lo ELSE hi,
     Monetary |-> 20 * (IF i <= c THEN lo ELSE hi)]

InitClassify ==
    /\ pc = "computed"
    /\ df = <<>>
    /\ snapshot_date = None
    /\ \E n \in 1..MaxDup :
       \E a \in 0..n : \E b \in a..n : \E c \in 0..n :
       \E f \in {<<5, 10>>, <<10, 5>>} :
          rfm = [i \in 1..n |-> BlockRow(i, a, b, c, f[1], f[2])]
    /\ rfm_scored = <<>>
    /\ rfm_segmented = <<>>
    /\ calls = 0
    /\ err = ""
    /\ bins \in BinCounts
    /\ columns = required_cols
    /\ cli_snapshot = None
    /\ outputs = <<>>
    /\ trace = <<>>
    /\ dataset = <<>>
    /\ kpis = None

NextClassify == ScoreRfm \/ AssignScored

SpecClassify == InitClassify /\ [][NextClassify]_vars

(***************************************************************************)
(* clean_data (clean_data.py).                                             *)
(***************************************************************************)
NullText == "NaN"       \* a missing Description

Descriptions == {NullText, "Unknown", "MUG"}

RawRows ==
    {[InvoiceNo |-> "536365", Description |-> d, Quantity |-> qty, UnitPrice |-> price] :
        d \in Descriptions, qty \in {0 - 1, 0, 1}, price \in {0, 3}}

\* df["Description"] = df["Description"].fillna("Unknown").map(str); the
\* other columns of these datasets already have their normal type
normalize(row) ==
    [row EXCEPT !.Description = IF row.Description = NullText THEN "Unknown"
                                ELSE row.Description]

\* drop_duplicates(keep=False): every row that has a duplicate is dropped
RECURSIVE drop_duplicates_KeepNone(_)
drop_duplicates_KeepNone(t) ==
    IF t = <<>> THEN <<>>
    ELSE LET n == Len(t)
             rest == drop_duplicates_KeepNone(SubSeq(t, 1, n - 1))
         IN  IF \E i \in 1..(n - 1) : t[i] = t[n]
             THEN SelectSeq(rest, LAMBDA r : r # t[n])
             ELSE Append(rest, t[n])

\* df.drop_duplicates(): of identical rows the first is kept
RECURSIVE drop_duplicates(_)
drop_duplicates(t) ==
    IF t = <<>> THEN <<>>
    ELSE LET n == Len(t)
             rest == drop_duplicates(SubSeq(t, 1, n - 1))
         IN  IF \E i \in 1..(n - 1) : t[i] = t[n]
             THEN rest
             ELSE Append(rest, t[n])

\* the frame clean_data writes for the raw dataset t
clean_data(t) ==
    LET normal == [i \in DOMAIN t |-> normalize(t[i])]
        unique == drop_duplicates(normal)
        sold == SelectSeq(unique, LAMBDA r : r.Quantity > 0)
    IN  SelectSeq(sold, LAMBDA r : r.UnitPrice > 0)

InitClean ==
    /\ pc = "clean"
    /\ \E n \in 0..MaxRaw : dataset \in [1..n -> RawRows]
    /\ df = <<>>
    /\ snapshot_date = None
    /\ rfm = <<>>
    /\ rfm_scored = <<>>
    /\ rfm_segmented = <<>>
    /\ calls = 0
    /\ err = ""
    /\ bins = DefaultBins
    /\ columns = {"InvoiceNo", "Description", "Quantity", "UnitPrice"}
    /\ cli_snapshot = None
    /\ outputs = <<>>
    /\ trace = <<>>
    /\ kpis = None

\* clean_data(input_path, output_path)
CleanData ==
    /\ pc = "clean"
    /\ df' = clean_data(dataset)
    /\ outputs' = Append(outputs, "retail_clean.parquet")
    /\ pc' = "cleaned"
    /\ UNCHANGED <<snapshot_date, rfm, rfm_scored, rfm_segmented, calls, err,
                   bins, columns, cli_snapshot, trace, dataset, kpis>>

NextClean == CleanData

SpecClean == InitClean /\ [][NextClean]_vars

(***************************************************************************)
(* compute_kpis (kpi_analysis.py).  A quotient is kept exact, as the       *)
(* fraction num / den.                                                     *)
(***************************************************************************)
\* the float a / b; a division by zero shows as den = 0
Ratio(a, b) == [num |-> a, den |-> b]

\* the float 0.0
Zero == Ratio(0, 1)

\* order lines: the invoice number may be missing, an invoice has one date
KpiRows ==
    {[InvoiceNo |-> inv, StockCode |-> code, CustomerID |-> cust,
      InvoiceDate |-> IF inv = "536366" THEN 1 ELSE 0,
      Quantity |-> qty, UnitPrice |-> 3, Revenue |-> qty * 3] :
        inv \in {NullText, "536365", "536366"}, code \in {"A", "B"},
        cust \in CustomerIDs \cup {NaN}, qty \in {1, 2}}

\* Series.nunique(): the distinct values of the column, missing ones left out
nunique(t, col, missing) == Cardinality({t[i][col] : i \in DOMAIN t} \ {missing})

\* Series.min() and Series.max(), NaT on an empty column
date_min(t) ==
    IF t = <<>> THEN None
    ELSE CHOOSE x \in {t[i].InvoiceDate : i \in DOMAIN t} :
            \A i \in DOMAIN t : x <= t[i].InvoiceDate

date_max(t) ==
    IF t = <<>> THEN None ELSE Max({t[i].InvoiceDate : i \in DOMAIN t})

\* df.groupby("InvoiceNo")["StockCode"].nunique().mean()
mean_unique_items(t) ==
    LET invoices == {t[i].InvoiceNo : i \in DOMAIN t} \ {NullText}
        items == [inv \in invoices |->
                     Cardinality({t[i].StockCode : i \in {k \in DOMAIN t : t[k].InvoiceNo = inv}})]
    IN  Ratio(SumOver(items, invoices), Cardinality(invoices))

\* compute_kpis dividing without looking at orders
compute_kpis_Unguarded(t) ==
    LET orders == nunique(t, "InvoiceNo", NullText)
        total_revenue == SumOver([i \in DOMAIN t |-> t[i].Revenue], DOMAIN t)
        total_quantity == SumOver([i \in DOMAIN t |-> t[i].Quantity], DOMAIN t)
    IN  [date_min |-> date_min(t), date_max |-> date_max(t),
         orders |-> orders,
         customers |-> nunique(t, "CustomerID", NaN),
         total_revenue |-> total_revenue,
         total_quantity |-> total_quantity,
         avg_order_value |-> Ratio(total_revenue, orders),
         avg_items_per_order |-> Ratio(total_quantity, orders),
         avg_unique_items |-> mean_unique_items(t)]

compute_kpis(t) ==
    LET orders == nunique(t, "InvoiceNo", NullText)
        total_revenue == SumOver([i \in DOMAIN t |-> t[i].Revenue], DOMAIN t)
        total_quantity == SumOver([i \in DOMAIN t |-> t[i].Quantity], DOMAIN t)
    IN  [date_min |-> date_min(t), date_max |-> date_max(t),
         orders |-> orders,
         customers |-> nunique(t, "CustomerID", NaN),
         total_revenue |-> total_revenue,
         total_quantity |-> total_quantity,
         avg_order_value |-> IF orders # 0 THEN Ratio(total_revenue, orders) ELSE Zero,
         avg_items_per_order |-> IF orders # 0 THEN Ratio(total_quantity, orders) ELSE Zero,
         avg_unique_items |-> IF orders # 0 THEN mean_unique_items(t) ELSE Zero]

InitKpi ==
    /\ pc = "kpi"
    /\ \E n \in 0..MaxKpiRows : df \in [1..n -> KpiRows]
    /\ snapshot_date = None
    /\ rfm = <<>>
    /\ rfm_scored = <<>>
    /\ rfm_segmented = <<>>
    /\ calls = 0
    /\ err = ""
    /\ bins = DefaultBins
    /\ columns = {"InvoiceNo", "StockCode", "CustomerID", "InvoiceDate",
                  "Quantity", "UnitPrice", "Revenue"}
    /\ cli_snapshot = None
    /\ outputs = <<>>
    /\ trace = <<>>
    /\ dataset = <<>>
    /\ kpis = None

\* kpis = compute_kpis(df)
ComputeKpis ==
    /\ pc = "kpi"
    /\ kpis' = compute_kpis(df)
    /\ pc' = "kpi_done"
    /\ UNCHANGED <<df, snapshot_date, rfm, rfm_scored, rfm_segmented, calls, err,
                   bins, columns, cli_snapshot, outputs, trace, dataset>>

NextKpi == ComputeKpis

SpecKpi == InitKpi /\ [][NextKpi]_vars

(***************************************************************************)
(* Properties of assign_segments (checked under SpecSegments).             *)
(***************************************************************************)
\* the rule list of the documentation, in priority order
RuleLabel == <<"VIP", "Loyal", "Growth Potential", "At Risk", "Dormant", "Mainstream">>

RuleHolds(k, R, F, M) ==
    CASE k = 1 -> R >= 4 /\ F >= 4 /\ M >= 4
      [] k = 2 -> F >= 4 /\ M >= 3 /\ R >= 2
      [] k = 3 -> R >= 4 /\ F <= 2 /\ M <= 2
      [] k = 4 -> R <= 2 /\ F >= 3 /\ M >= 2
      [] k = 5 -> R <= 1
      [] k = 6 -> TRUE

FirstRule(R, F, M) ==
    CHOOSE k \in 1..6 : /\ RuleHolds(k, R, F, M)
                        /\ \A j \in 1..(k - 1) : ~RuleHolds(j, R, F, M)

SameScores(a, b) ==
    a.R_Score = b.R_Score /\ a.F_Score = b.F_Score /\ a.M_Score = b.M_Score

\* C1: once assign_segments has returned, the table has one row per scored
\* row, and the Segment of every row is one of the six labels, namely the
\* label of the first rule in priority order whose predicate the row's
\* (R_Score, F_Score, M_Score) satisfies.
C1_FirstMatchingRule ==
    pc = "segmented" =>
        /\ Len(rfm_segmented) = Len(rfm_scored)
        /\ \A i \in DOMAIN rfm_segmented :
              LET row == rfm_segmented[i]
              IN  /\ row.Segment \in Segments
                  /\ Cardinality({k \in 1..6 : RuleLabel[k] = row.Segment}) = 1
                  /\ row.Segment =
                       RuleLabel[FirstRule(row.R_Score, row.F_Score, row.M_Score)]

\* a row that satisfies both the VIP and the Loyal predicate has been labelled
C1_Witness ==
    /\ pc = "segmented"
    /\ \E i \in DOMAIN rfm_segmented :
          LET row == rfm_segmented[i]
          IN  /\ RuleHolds(1, row.R_Score, row.F_Score, row.M_Score)
              /\ RuleHolds(2, row.R_Score, row.F_Score, row.M_Score)
              /\ row.Segment = "VIP"

\* C2: a row whose scores satisfy the VIP or the Loyal predicate is labelled
\* VIP or Loyal, and a row is labelled Mainstream only when its scores
\* satisfy none of the five specific predicates.
C2_HighValueNeverPreempted ==
    \A i \in DOMAIN rfm_segmented :
        LET row == rfm_segmented[i]
            R == row.R_Score
            F == row.F_Score
            M == row.M_Score
        IN  /\ (RuleHolds(1, R, F, M) \/ RuleHolds(2, R, F, M))
                  => row.Segment \in {"VIP", "Loyal"}
            /\ row.Segment = "Mainstream"
                  => \A k \in 1..5 : ~RuleHolds(k, R, F, M)

\* a row that satisfies the Loyal and the At Risk predicate was labelled Loyal,
\* next to a row labelled Mainstream
C2_Witness ==
    /\ \E i \in DOMAIN rfm_segmented :
          LET row == rfm_segmented[i]
          IN  /\ RuleHolds(2, row.R_Score, row.F_Score, row.M_Score)
              /\ RuleHolds(4, row.R_Score, row.F_Score, row.M_Score)
              /\ row.Segment = "Loyal"
    /\ \E i \in DOMAIN rfm_segmented : rfm_segmented[i].Segment = "Mainstream"

\* C3 as stated: every row with R_Score <= 1 is labelled Dormant, whatever
\* its F_Score and M_Score.
C3_Original ==
    \A i \in DOMAIN rfm_segmented :
        rfm_segmented[i].R_Score <= 1 => rfm_segmented[i].Segment = "Dormant"

\* C3 amended: a row with R_Score <= 1 is labelled At Risk when F_Score >= 3
\* and M_Score >= 2 (the At Risk rule precedes the Dormant rule), and Dormant
\* otherwise.
C3_DormantUnlessAtRisk ==
    \A i \in DOMAIN rfm_segmented :
        LET row == rfm_segmented[i]
        IN  row.R_Score <= 1 =>
               row.Segment = IF row.F_Score >= 3 /\ row.M_Score >= 2
                             THEN "At Risk" ELSE "Dormant"

\* one table holds a row with R_Score = 1 labelled At Risk and a row with
\* R_Score = 1 and a high F_Score labelled Dormant
C3_Witness ==
    /\ \E i \in DOMAIN rfm_segmented :
          /\ rfm_segmented[i].R_Score = 1
          /\ rfm_segmented[i].Segment = "At Risk"
    /\ \E i \in DOMAIN rfm_segmented :
          /\ rfm_segmented[i].R_Score = 1
          /\ rfm_segmented[i].F_Score >= 3
          /\ rfm_segmented[i].Segment = "Dormant"

\* any two rows of the segmented table with equal score triples carry the
\* same Segment
SegmentDependsOnScoresOnly ==
    \A i, j \in DOMAIN rfm_segmented :
        SameScores(rfm_segmented[i], rfm_segmented[j])
            => rfm_segmented[i].Segment = rfm_segmented[j].Segment

\* C4: every call of assign_segments returns a table in which rows with equal
\* (R_Score, F_Score, M_Score) carry the same Segment, whatever their
\* CustomerID, Recency, Frequency and Monetary, and a second call on the same
\* scored table returns the table the first call returned.
C4_LabelIsFunctionOfScores ==
    [][ /\ SegmentDependsOnScoresOnly'
        /\ (pc = "segmented" /\ rfm_scored' = rfm_scored)
              => rfm_segmented' = rfm_segmented ]_vars

\* assign_segments has been called twice on a table with two rows that agree
\* on the scores and differ in CustomerID, Recency, Frequency and Monetary
C4_Witness ==
    /\ calls = 2
    /\ \E i, j \in DOMAIN rfm_segmented :
          /\ SameScores(rfm_segmented[i], rfm_segmented[j])
          /\ rfm_segmented[i].CustomerID # rfm_segmented[j].CustomerID
          /\ rfm_segmented[i].Recency # rfm_segmented[j].Recency
          /\ rfm_segmented[i].Frequency # rfm_segmented[j].Frequency
          /\ rfm_segmented[i].Monetary # rfm_segmented[j].Monetary
          /\ rfm_segmented[i].Segment = "At Risk"

(***************************************************************************)
(* Properties of compute_rfm (checked under SpecRfm).  In a state reached  *)
(* by ComputeRfm, df is the table compute_rfm was called on.               *)
(***************************************************************************)
InputCustomers == {df[i].CustomerID : i \in DOMAIN df} \ {NaN}

RowsOf(c) == {i \in DOMAIN df : df[i].CustomerID = c}

LatestOrder(c) == Max({df[i].InvoiceDate : i \in RowsOf(c)})

\* the snapshot instant compute_rfm measures Recency against
EffectiveSnapshot ==
    IF snapshot_date = None
    THEN Max({df[i].InvoiceDate : i \in DOMAIN df}) + TicksPerDay
    ELSE snapshot_date

\* C5: when compute_rfm returns, its result has exactly one row for every
\* distinct non-null CustomerID of the input and no other row.
C5_OneRowPerCustomer ==
    pc = "computed" =>
        /\ {rfm[i].CustomerID : i \in DOMAIN rfm} = InputCustomers
        /\ \A i, j \in DOMAIN rfm : rfm[i].CustomerID = rfm[j].CustomerID => i = j

\* compute_rfm returned a row for each of two customers
C5_Witness ==
    /\ pc = "computed"
    /\ Cardinality(InputCustomers) = 2
    /\ Len(rfm) = 2

\* C6: the Frequency of every returned customer is the number of distinct
\* InvoiceNo values among that customer's rows.
C6_FrequencyCountsOrders ==
    pc = "computed" =>
        \A i \in DOMAIN rfm :
            rfm[i].Frequency =
                Cardinality({df[k].InvoiceNo : k \in RowsOf(rfm[i].CustomerID)})

\* a customer with two rows of one order was returned with Frequency 1
C6_Witness ==
    /\ pc = "computed"
    /\ \E i \in DOMAIN rfm :
          /\ Cardinality(RowsOf(rfm[i].CustomerID)) = 2
          /\ rfm[i].Frequency = 1

\* C7: the Recency of every returned customer is the number of whole days
\* from the customer's latest InvoiceDate to the snapshot instant.
C7_RecencyWholeDays ==
    pc = "computed" =>
        \A i \in DOMAIN rfm :
            LET elapsed == EffectiveSnapshot - LatestOrder(rfm[i].CustomerID)
            IN  /\ rfm[i].Recency * TicksPerDay <= elapsed
                /\ elapsed < (rfm[i].Recency + 1) * TicksPerDay

\* a customer with an earlier and a later order was returned, the later
\* order a whole day and a fraction of a day before the snapshot
C7_Witness ==
    /\ pc = "computed"
    /\ snapshot_date # None
    /\ \E i \in DOMAIN rfm :
          /\ \E k \in RowsOf(rfm[i].CustomerID) :
                df[k].InvoiceDate < LatestOrder(rfm[i].CustomerID)
          /\ (snapshot_date - LatestOrder(rfm[i].CustomerID)) % TicksPerDay # 0
          /\ rfm[i].Recency = 1

\* C8: the Monetary of every returned customer is the sum of
\* Quantity x UnitPrice over all of that customer's rows.
C8_MonetarySumsRevenue ==
    pc = "computed" =>
        \A i \in DOMAIN rfm :
            rfm[i].Monetary =
                SumOver([k \in DOMAIN df |-> df[k].Quantity * df[k].UnitPrice],
                        RowsOf(rfm[i].CustomerID))

\* a customer with two rows of one order was returned
C8_Witness ==
    /\ pc = "computed"
    /\ \E i \in DOMAIN rfm :
          /\ Cardinality(RowsOf(rfm[i].CustomerID)) = 2
          /\ Cardinality({df[k].InvoiceNo : k \in RowsOf(rfm[i].CustomerID)}) = 1
          /\ rfm[i].Monetary = 20

\* C9: called without a snapshot date, compute_rfm measures Recency against
\* the latest InvoiceDate of the input plus one day: a customer whose latest
\* order is the latest order of the input has Recency 1.
C9_DefaultSnapshot ==
    (pc = "computed" /\ snapshot_date = None) =>
        \A i \in DOMAIN rfm :
            LET latest == Max({df[k].InvoiceDate : k \in DOMAIN df})
                elapsed == latest + TicksPerDay - LatestOrder(rfm[i].CustomerID)
            IN  /\ rfm[i].Recency = elapsed \div TicksPerDay
                /\ LatestOrder(rfm[i].CustomerID) = latest => rfm[i].Recency = 1

\* without a snapshot date, the customer of the latest order was returned
\* with Recency 1 and another customer with Recency 2
C9_Witness ==
    /\ pc = "computed"
    /\ snapshot_date = None
    /\ \E i, j \in DOMAIN rfm : rfm[i].Recency = 1 /\ rfm[j].Recency = 2

\* C10: a call of compute_rfm with a snapshot instant earlier than the latest
\* order of some customer ends with the negative-Recency assertion and
\* returns no table.
C10_EarlySnapshotRejected ==
    (/\ pc \in {"computed", "failed"}
     /\ snapshot_date # None
     /\ \E c \in InputCustomers : snapshot_date < LatestOrder(c))
        => /\ pc = "failed"
           /\ err = "Found negative Recency"
           /\ rfm = <<>>

\* compute_rfm failed on a snapshot less than a day before a customer's
\* latest order while another customer's orders all precede the snapshot
C10_Witness ==
    /\ pc = "failed"
    /\ snapshot_date # None
    /\ \E c \in InputCustomers :
          /\ snapshot_date < LatestOrder(c)
          /\ LatestOrder(c) - snapshot_date < TicksPerDay
    /\ \E c \in InputCustomers : LatestOrder(c) < snapshot_date

\* C11: every row of a table compute_rfm returns has Recency >= 0,
\* Frequency >= 1 and Monetary > 0, and a call on an input in which the
\* revenue of some customer sums to zero or less fails and returns no table.
C11_ReturnedMetricsValid ==
    /\ pc = "computed" =>
          \A i \in DOMAIN rfm :
              rfm[i].Recency >= 0 /\ rfm[i].Frequency >= 1 /\ rfm[i].Monetary > 0
    /\ (/\ pc \in {"computed", "failed"}
        /\ \E c \in InputCustomers :
              SumOver([k \in DOMAIN df |-> df[k].Quantity * df[k].UnitPrice],
                      RowsOf(c)) <= 0)
          => pc = "failed" /\ err # "" /\ rfm = <<>>

\* compute_rfm rejected an input in which a purchase and a return of one
\* customer cancel to a revenue of zero while another customer's revenue is
\* positive
C11_Witness ==
    /\ pc = "failed"
    /\ err = "Found Monetary <= 0"
    /\ \E c \in InputCustomers :
          /\ Cardinality(RowsOf(c)) = 2
          /\ SumOver([k \in DOMAIN df |-> df[k].Revenue], RowsOf(c)) = 0

\* C29: when compute_rfm is called without a snapshot date on a non-empty
\* input in which every row has a customer identifier, the negative-Recency
\* check never fails, every Recency is >= 1 and the smallest Recency of the
\* result is exactly 1.
C29_DefaultSnapshotRecencyFromOne ==
    (/\ pc \in {"computed", "failed"}
     /\ snapshot_date = None
     /\ df # <<>>
     /\ \A k \in DOMAIN df : df[k].CustomerID # NaN)
        => /\ err # "Found negative Recency"
           /\ pc = "computed" =>
                 /\ \A i \in DOMAIN rfm : rfm[i].Recency >= 1
                 /\ \E i \in DOMAIN rfm : rfm[i].Recency = 1

C29_Witness ==
    /\ pc = "computed"
    /\ snapshot_date = None
    /\ Len(df) = 2
    /\ \A k \in DOMAIN df : df[k].CustomerID # NaN
    /\ df[1].InvoiceDate > df[2].InvoiceDate
    /\ Len(rfm) = 2
    /\ rfm[1].Recency = 1
    /\ rfm[2].Recency = 2

(***************************************************************************)
(* Properties of score_rfm (checked under SpecScore).                      *)
(***************************************************************************)
RecencyColumn == [i \in DOMAIN rfm |-> rfm[i].Recency]
FrequencyColumn == [i \in DOMAIN rfm |-> rfm[i].Frequency]
MonetaryColumn == [i \in DOMAIN rfm |-> rfm[i].Monetary]

\* duplicate values of the column x have collapsed some quantile boundary
Collapsed(x) == Cardinality(Range(QuantileEdges(x, bins))) < bins + 1

\* C15: whenever score_rfm returns, for every population and every bin
\* count bins >= 1, each of R_Score, F_Score and M_Score of every customer
\* is an integer in [1, bins].
C15_ScoresInRange ==
    pc = "scored" =>
        \A i \in DOMAIN rfm_scored :
            /\ rfm_scored[i].R_Score \in 1..bins
            /\ rfm_scored[i].F_Score \in 1..bins
            /\ rfm_scored[i].M_Score \in 1..bins

C15_Witness ==
    /\ pc = "scored"
    /\ bins = 3
    /\ \E i, j \in DOMAIN rfm_scored :
          /\ rfm_scored[i].R_Score = 1 /\ rfm_scored[j].R_Score = 3
          /\ rfm_scored[i].F_Score = 3 /\ rfm_scored[j].F_Score = 1

RecencyInverted ==
    \A a, b \in DOMAIN rfm_scored :
        rfm_scored[a].Recency < rfm_scored[b].Recency
            => rfm_scored[a].R_Score >= rfm_scored[b].R_Score

RecencyPairwiseDistinct ==
    \A a, b \in DOMAIN rfm_scored :
        a # b => rfm_scored[a].Recency # rfm_scored[b].Recency

SmallestBeatsLargest ==
    \A a, b \in DOMAIN rfm_scored :
        (/\ \A c \in DOMAIN rfm_scored : rfm_scored[a].Recency <= rfm_scored[c].Recency
         /\ \A c \in DOMAIN rfm_scored : rfm_scored[c].Recency <= rfm_scored[b].Recency)
            => rfm_scored[a].R_Score > rfm_scored[b].R_Score

\* C16 as stated: a smaller Recency never gets a lower R_Score, and with
\* pairwise distinct Recency values and at least bins customers the smallest
\* Recency gets a strictly higher R_Score than the largest.
C16_Original ==
    pc = "scored" =>
        /\ RecencyInverted
        /\ (RecencyPairwiseDistinct /\ Len(rfm_scored) >= bins)
               => SmallestBeatsLargest

\* C16 (amended): a smaller Recency never gets a lower R_Score, and with
\* pairwise distinct Recency values, at least bins customers and bins >= 2
\* the smallest Recency gets a strictly higher R_Score than the largest.
C16_RecencyInverted ==
    pc = "scored" =>
        /\ RecencyInverted
        /\ (RecencyPairwiseDistinct /\ Len(rfm_scored) >= bins /\ bins >= 2)
               => SmallestBeatsLargest

C16_Witness ==
    /\ pc = "scored"
    /\ bins = 3
    /\ Len(rfm_scored) = 3
    /\ RecencyPairwiseDistinct
    /\ rfm_scored[1].R_Score = 3
    /\ rfm_scored[3].R_Score = 1

\* C17: of two customers scored by the same call, the one with the greater
\* Frequency never has the lower F_Score and the one with the greater
\* Monetary never has the lower M_Score.
C17_FrequencyMonetaryMonotone ==
    pc = "scored" =>
        \A a, b \in DOMAIN rfm_scored :
            /\ rfm_scored[a].Frequency > rfm_scored[b].Frequency
                   => rfm_scored[a].F_Score >= rfm_scored[b].F_Score
            /\ rfm_scored[a].Monetary > rfm_scored[b].Monetary
                   => rfm_scored[a].M_Score >= rfm_scored[b].M_Score

C17_Witness ==
    /\ pc = "scored"
    /\ \E a, b \in DOMAIN rfm_scored :
          /\ rfm_scored[a].Recency < rfm_scored[b].Recency
          /\ rfm_scored[a].R_Score > rfm_scored[b].R_Score
          /\ rfm_scored[a].Monetary > rfm_scored[b].Monetary
          /\ rfm_scored[a].M_Score > rfm_scored[b].M_Score
          /\ rfm_scored[a].F_Score > rfm_scored[b].F_Score

\* C18: whenever score_rfm returns, every customer of the first quantile
\* group of Recency (the values up to the first boundary above the smallest
\* value) has R_Score = bins, also when duplicate values have collapsed
\* some boundaries.
C18_MostRecentGroupScoresBins ==
    pc = "scored" =>
        LET edges == BinEdges(RecencyColumn, bins)
        IN  \A a \in DOMAIN rfm_scored :
                bins * rfm_scored[a].Recency <= edges[2]
                    => rfm_scored[a].R_Score = bins

C18_Witness ==
    /\ pc = "scored"
    /\ bins = DefaultBins
    /\ Len(rfm_scored) >= 3
    /\ Collapsed(RecencyColumn)
    /\ \E a, b \in DOMAIN rfm_scored :
          /\ a # b
          /\ rfm_scored[a].Recency = rfm_scored[b].Recency
          /\ rfm_scored[a].R_Score = DefaultBins
          /\ rfm_scored[b].R_Score = DefaultBins
    /\ \E c \in DOMAIN rfm_scored : rfm_scored[c].R_Score < DefaultBins

\* C19: score_rfm never fails because of duplicate metric values: on every
\* non-empty population it returns scores for all customers, with fewer
\* than bins distinct score values in every dimension whose quantile
\* boundaries the duplicates have collapsed.
C19_DuplicatesNeverFail ==
    (pc \in {"scored", "failed"} /\ rfm # <<>>) =>
        /\ pc = "scored"
        /\ Len(rfm_scored) = Len(rfm)
        /\ Collapsed(RecencyColumn) =>
               Cardinality({rfm_scored[i].R_Score : i \in DOMAIN rfm_scored}) < bins
        /\ Collapsed(FrequencyColumn) =>
               Cardinality({rfm_scored[i].F_Score : i \in DOMAIN rfm_scored}) < bins
        /\ Collapsed(MonetaryColumn) =>
               Cardinality({rfm_scored[i].M_Score : i \in DOMAIN rfm_scored}) < bins

\* C20: on a population with fewer customers than bins, down to a single
\* customer with the default bins = 5, score_rfm completes and returns a
\* score in [1, bins] for every customer.
C20_FewerCustomersThanBins ==
    (pc \in {"scored", "failed"} /\ Len(rfm) >= 1 /\ Len(rfm) < bins) =>
        /\ pc = "scored"
        /\ \A i \in DOMAIN rfm :
              /\ rfm_scored[i].R_Score \in 1..bins
              /\ rfm_scored[i].F_Score \in 1..bins
              /\ rfm_scored[i].M_Score \in 1..bins

\* the number of customers whose score in the column named col is v
ScoreCount(col, v) ==
    Cardinality({i \in DOMAIN rfm_scored : rfm_scored[i][col] = v})

PairwiseDistinct(col) ==
    \A a, b \in DOMAIN rfm_scored :
        a # b => rfm_scored[a][col] # rfm_scored[b][col]

EqualSizeGroups(metric, score) ==
    (Len(rfm_scored) >= bins /\ PairwiseDistinct(metric)) =>
        \A v, w \in 1..bins :
            /\ ScoreCount(score, v) >= 1
            /\ ScoreCount(score, v) - ScoreCount(score, w) <= 1

DecimalText == [n \in 0..9 |-> Digit[n + 1]]

\* C23: for every row score_rfm returns, RFM_Score is the decimal text of
\* R_Score, then of F_Score, then of M_Score.
C23_RFMScoreIsRFMText ==
    pc = "scored" =>
        \A i \in DOMAIN rfm_scored :
            rfm_scored[i].RFM_Score =
                DecimalText[rfm_scored[i].R_Score]
                    \o DecimalText[rfm_scored[i].F_Score]
                    \o DecimalText[rfm_scored[i].M_Score]

C23_Witness ==
    /\ pc = "scored"
    /\ \E i, j \in DOMAIN rfm_scored :
          /\ rfm_scored[i].RFM_Score = "311"
          /\ rfm_scored[j].RFM_Score = "133"

(***************************************************************************)
(* Properties of the pipeline run() (checked under SpecRun).               *)
(***************************************************************************)
Called(f) == \E k \in DOMAIN trace : trace[k] = f

\* C12: on an input with no transaction, or none carrying a customer
\* identifier, compute_rfm raises or returns an empty table, never a
\* non-empty one, and run() never reaches score_rfm with an empty population.
C12_EmptyInputNeverScored ==
    /\ (InputCustomers = {} /\ Called("compute_rfm")) => rfm = <<>>
    /\ Called("score_rfm") => rfm # <<>>

\* a failure of load_transactions or compute_rfm leaves nothing scored,
\* labelled or written, and whatever is written was written after all four
\* stages had completed
NothingDownstreamOfAFailure ==
    /\ (pc = "failed" /\ trace[Len(trace)] \in {"load_transactions", "compute_rfm"})
           => /\ ~Called("score_rfm")
              /\ ~Called("assign_segments")
              /\ rfm_scored = <<>>
              /\ rfm_segmented = <<>>
              /\ outputs = <<>>
    /\ outputs # <<>>
           => /\ trace = <<"load_transactions", "compute_rfm", "score_rfm",
                           "assign_segments">>
              /\ err = ""

\* C13: in run(), if load_transactions or compute_rfm fails, score_rfm and
\* assign_segments are never executed and no artefact is written, then or
\* later (a failed run takes no further step); every write happens only
\* after loading, aggregation, scoring and segmentation have all completed.
C13_FailureStopsPipeline ==
    /\ []NothingDownstreamOfAFailure
    /\ [][pc # "failed"]_vars

C13_Witness ==
    /\ pc = "failed"
    /\ trace = <<"load_transactions", "compute_rfm">>
    /\ err = "Found Monetary <= 0"
    /\ Len(df) >= 2

\* C14: when the command line gives --snapshot D, the Recency of every
\* customer of the segmentation table is the whole days from the customer's
\* latest order to D; the day after the last transaction is used only when
\* --snapshot is omitted.
C14_SnapshotOptionSetsRecency ==
    pc \in {"run_segmented", "done"} =>
        \A i \in DOMAIN rfm_segmented :
            LET snapshot == IF cli_snapshot = None
                            THEN Max({df[k].InvoiceDate : k \in DOMAIN df}) + TicksPerDay
                            ELSE cli_snapshot
                elapsed == snapshot - LatestOrder(rfm_segmented[i].CustomerID)
            IN  /\ rfm_segmented[i].Recency * TicksPerDay <= elapsed
                /\ elapsed < (rfm_segmented[i].Recency + 1) * TicksPerDay

\* the rows of the dataset that carry a customer identifier
Identified == {i \in DOMAIN dataset : dataset[i].CustomerID # NaN}

\* C24: load_transactions returns exactly the rows of the dataset that have
\* a CustomerID, in their order, each with Revenue = Quantity x UnitPrice
\* (rows without one are dropped, rows with one are kept), so no guest row
\* reaches compute_rfm through run().
C24_LoadKeepsIdentifiedRows ==
    (columns = required_cols /\ Called("load_transactions")) =>
        /\ Len(df) = Cardinality(Identified)
        /\ \A i \in Identified :
              LET j == Cardinality({k \in Identified : k <= i})
              IN  /\ \A c \in required_cols : df[j][c] = dataset[i][c]
                  /\ df[j].Revenue = dataset[i].Quantity * dataset[i].UnitPrice
        /\ \A j \in DOMAIN df : df[j].CustomerID # NaN

C24_Witness ==
    /\ columns = required_cols
    /\ Called("compute_rfm")
    /\ Len(dataset) = 3
    /\ dataset[1].CustomerID # NaN
    /\ dataset[2].CustomerID = NaN
    /\ dataset[3].CustomerID # NaN
    /\ Len(df) = 2
    /\ df[2].Revenue = 0 - 10

\* C25: if the dataset lacks any one of the required columns,
\* load_transactions fails with 'Missing required columns', returns no
\* table, and nothing is filtered, computed or written after it.
C25_MissingColumnRejected ==
    (columns # required_cols /\ Called("load_transactions")) =>
        /\ pc = "failed"
        /\ err = "Missing required columns"
        /\ trace = <<"load_transactions">>
        /\ df = <<>>
        /\ rfm = <<>>
        /\ outputs = <<>>

C25_Witness ==
    /\ pc = "failed"
    /\ "UnitPrice" \notin columns
    /\ Len(dataset) = 1
    /\ err = "Missing required columns"

(***************************************************************************)
(* Properties of the call sequence (checked under SpecPipeline).           *)
(***************************************************************************)
\* C21: for a population of a single customer, compute_rfm followed by
\* score_rfm with bins = 1 and assign_segments never ends in an error and
\* returns exactly one row, whose Segment is one of the six labels.
C21_SingleCustomerOneBin ==
    (Len(rfm) = 1 /\ bins = 1) =>
        /\ pc # "failed"
        /\ err = ""
        /\ pc \in {"scored", "segmented"} => Len(rfm_scored) = 1
        /\ pc = "segmented" =>
              /\ Len(rfm_segmented) = 1
              /\ rfm_segmented[1].CustomerID = rfm[1].CustomerID
              /\ rfm_segmented[1].Segment \in Segments

C21_Witness ==
    /\ pc = "segmented"
    /\ bins = 1
    /\ Len(df) = 1
    /\ Len(rfm) = 1
    /\ Len(rfm_segmented) = 1
    /\ rfm_segmented[1].RFM_Score = "111"
    /\ rfm_segmented[1].Segment = "Dormant"

(***************************************************************************)
(* Properties of clean_data (checked under SpecClean).                     *)
(***************************************************************************)
CleanRowsValid ==
    /\ \A j \in DOMAIN df : df[j].Quantity > 0 /\ df[j].UnitPrice > 0
    /\ \A j, k \in DOMAIN df : j # k => df[j] # df[k]

\* C26 as stated: every written row has Quantity > 0 and UnitPrice > 0, no
\* two written rows are identical, and every input row with Quantity > 0
\* and UnitPrice > 0 is present in the output.
C26_Original ==
    pc = "cleaned" =>
        /\ CleanRowsValid
        /\ \A i \in DOMAIN dataset :
              (dataset[i].Quantity > 0 /\ dataset[i].UnitPrice > 0)
                  => \E j \in DOMAIN df : df[j] = dataset[i]

\* C26 (amended): every written row has Quantity > 0 and UnitPrice > 0, no
\* two written rows are identical, and every input row with Quantity > 0
\* and UnitPrice > 0 is present in the output in its normalised form: with
\* the same values, a missing Description reading "Unknown".
C26_CleanKeepsValidRows ==
    pc = "cleaned" =>
        /\ CleanRowsValid
        /\ \A i \in DOMAIN dataset :
              (dataset[i].Quantity > 0 /\ dataset[i].UnitPrice > 0)
                  => \E j \in DOMAIN df :
                        /\ df[j].InvoiceNo = dataset[i].InvoiceNo
                        /\ df[j].Quantity = dataset[i].Quantity
                        /\ df[j].UnitPrice = dataset[i].UnitPrice
                        /\ dataset[i].Description # NullText
                               => df[j].Description = dataset[i].Description
                        /\ dataset[i].Description = NullText
                               => df[j].Description = "Unknown"

\* a dataset with a row twice, a row that lacks a Description and a return
C26_Witness ==
    /\ pc = "cleaned"
    /\ Len(dataset) = 3
    /\ dataset[1].Description = NullText
    /\ dataset[2] = dataset[1]
    /\ dataset[1].Quantity > 0 /\ dataset[1].UnitPrice > 0
    /\ dataset[3].Quantity < 0
    /\ Len(df) = 1
    /\ df[1].Description = "Unknown"

(***************************************************************************)
(* Properties of score_rfm followed by assign_segments (checked under      *)
(* SpecClassify).                                                          *)
(***************************************************************************)
MetricColumns == {"CustomerID", "Recency", "Frequency", "Monetary"}
ScoreColumns == {"R_Score", "F_Score", "M_Score", "RFM_Score"}

\* the table out has the rows of the table in, in their order, with the
\* columns kept unchanged and just the columns added on top
SameRowsPlus(in, out, kept, added) ==
    /\ Len(out) = Len(in)
    /\ \A i \in DOMAIN in :
          /\ DOMAIN out[i] = kept \cup added
          /\ \A c \in kept : out[i][c] = in[i][c]

\* C27: score_rfm and assign_segments leave their argument unchanged, and
\* the table either returns has the rows of the argument in the same order
\* with CustomerID, Recency, Frequency and Monetary (for assign_segments also
\* the four score columns) unchanged, only the score columns or the Segment
\* column added.
C27_NoSideEffectOnArgument ==
    [][/\ pc = "computed" => rfm' = rfm
       /\ (pc = "computed" /\ pc' = "scored")
              => SameRowsPlus(rfm, rfm_scored', MetricColumns, ScoreColumns)
       /\ pc' = "segmented"
              => /\ rfm_scored' = rfm_scored
                 /\ rfm' = rfm
                 /\ SameRowsPlus(rfm_scored, rfm_segmented',
                                 MetricColumns \cup ScoreColumns, {"Segment"})]_vars

C27_Witness ==
    /\ pc = "segmented"
    /\ Len(rfm) = 3
    /\ Len(rfm_segmented) = 3
    /\ rfm_segmented[1].Segment # rfm_segmented[3].Segment
    /\ rfm_segmented[1].RFM_Score # rfm_segmented[3].RFM_Score

\* the number of quantile groups left for the column x
Groups(x) == Len(BinEdges(x, bins)) - 1

\* C28: when duplicate values leave only k < bins quantile groups for a
\* metric, the R_Score values lie in [bins-k+1, bins] and the F_Score and
\* M_Score values lie in [1, k]; a population with a single group per metric
\* gets R_Score = bins and F_Score = M_Score = 1 for every customer, which
\* assign_segments labels Growth Potential when bins = 5.
C28_ScoresCompressOppositeWays ==
    pc \in {"scored", "segmented"} =>
        /\ Groups(RecencyColumn) < bins =>
              \A i \in DOMAIN rfm_scored :
                  rfm_scored[i].R_Score \in (bins - Groups(RecencyColumn) + 1)..bins
        /\ Groups(FrequencyColumn) < bins =>
              \A i \in DOMAIN rfm_scored :
                  rfm_scored[i].F_Score \in 1..Groups(FrequencyColumn)
        /\ Groups(MonetaryColumn) < bins =>
              \A i \in DOMAIN rfm_scored :
                  rfm_scored[i].M_Score \in 1..Groups(MonetaryColumn)
        /\ (/\ bins > 1
            /\ Groups(RecencyColumn) = 1
            /\ Groups(FrequencyColumn) = 1
            /\ Groups(MonetaryColumn) = 1) =>
              /\ \A i \in DOMAIN rfm_scored :
                    /\ rfm_scored[i].R_Score = bins
                    /\ rfm_scored[i].F_Score = 1
                    /\ rfm_scored[i].M_Score = 1
              /\ (pc = "segmented" /\ bins = DefaultBins) =>
                    \A i \in DOMAIN rfm_segmented :
                        rfm_segmented[i].Segment = "Growth Potential"

\* six customers, two Recency values and two Frequency values three times
\* each, scored with five bins: one group per metric
C28_Witness ==
    /\ pc = "segmented"
    /\ bins = DefaultBins
    /\ Len(rfm) = 6
    /\ rfm[3].Recency < rfm[4].Recency
    /\ rfm[3].Frequency # rfm[4].Frequency
    /\ Groups(RecencyColumn) = 1
    /\ Groups(FrequencyColumn) = 1
    /\ \A i \in DOMAIN rfm_segmented :
          /\ rfm_segmented[i].RFM_Score = "511"
          /\ rfm_segmented[i].Segment = "Growth Potential"

(***************************************************************************)
(* Properties of compute_kpis (checked under SpecKpi).                     *)
(***************************************************************************)
DistinctInvoices == {df[i].InvoiceNo : i \in DOMAIN df} \ {NullText}

\* C30: compute_kpis never divides by zero: with no order (no InvoiceNo in
\* the dataset) avg_order_value, avg_items_per_order and avg_unique_items
\* are 0.0; otherwise avg_order_value is total_revenue / orders with orders
\* the number of distinct InvoiceNo; customers counts the distinct non-null
\* CustomerID values only.
C30_KpisNeverDivideByZero ==
    pc = "kpi_done" =>
        /\ kpis.avg_order_value.den # 0
        /\ kpis.avg_items_per_order.den # 0
        /\ kpis.avg_unique_items.den # 0
        /\ kpis.orders = Cardinality(DistinctInvoices)
        /\ DistinctInvoices = {} =>
              /\ kpis.avg_order_value = [num |-> 0, den |-> 1]
              /\ kpis.avg_items_per_order = [num |-> 0, den |-> 1]
              /\ kpis.avg_unique_items = [num |-> 0, den |-> 1]
        /\ DistinctInvoices # {} =>
              /\ kpis.avg_order_value.den = Cardinality(DistinctInvoices)
              /\ kpis.avg_order_value.num =
                     SumOver([i \in DOMAIN df |-> df[i].Quantity * df[i].UnitPrice],
                             DOMAIN df)
        /\ kpis.customers =
               Cardinality({c \in CustomerIDs : \E i \in DOMAIN df : df[i].CustomerID = c})

\* rows without an invoice number: no order, the averages are 0.0; and a
\* dataset of two orders
C30_Witness ==
    /\ pc = "kpi_done"
    /\ Len(df) = 2
    /\ df[1].InvoiceNo = NullText
    /\ df[2].InvoiceNo = NullText
    /\ df[1].CustomerID = NaN
    /\ df[2].CustomerID # NaN
    /\ kpis.orders = 0
    /\ kpis.customers = 1
    /\ kpis.total_revenue > 0
    /\ kpis.avg_order_value.num = 0

====
